---------------------------- MODULE Spec2Model ----------------------------
(***************************************************************************)
(* Model of teaser/logic/buildingobjects/calculation/two_element.py: the   *)
(* TwoElement class, which lumps the envelope elements of a thermal zone   *)
(* into the resistances and capacities of the VDI 6007 two element model.  *)
(*                                                                         *)
(* Numbers.  The Python floats are modelled as exact rationals <<n, d>>    *)
(* (d > 0, lowest terms).  A division by zero, which in Python raises      *)
(* ZeroDivisionError both for the int 0 of an empty sum() and for the      *)
(* float 0.0 of an unassigned attribute, yields the value ERR; ERR is      *)
(* absorbing, and an assignment whose right-hand side is ERR raises.       *)
(***************************************************************************)
EXTENDS Integers, Sequences, FiniteSets, TLC

(***************************************************************************)
(* Bounds of the model.                                                    *)
(***************************************************************************)
\* longest list of outer walls, of windows and of inner walls of the zone
MaxLen == 1
\* most elements of a list handed directly to _calc_chain_matrix
MaxChain == 3
\* largest omega handed directly to _calc_chain_matrix
MaxOmega == 1

(***************************************************************************)
(* Exact rational arithmetic.  Once and Once2 evaluate their arguments     *)
(* before applying F, so that an operand is computed once however often    *)
(* the operator reads it.                                                  *)
(***************************************************************************)
Once(F(_), a) == CHOOSE z \in {F(x) : x \in {a}} : TRUE

Once2(F(_, _), a, b) == CHOOSE z \in {F(x, y) : x \in {a}, y \in {b}} : TRUE

ERR == <<0, 0>>

IsErr(a) == a[2] = 0

Abs(x) == IF x < 0 THEN -x ELSE x

RECURSIVE Gcd(_, _)
Gcd(a, b) == IF b = 0 THEN a ELSE Once2(Gcd, b, a % b)

NormV(n, d) ==
    IF d = 0 THEN ERR
    ELSE IF n = 0 THEN <<0, 1>>
    ELSE LET s == IF d < 0 THEN -1 ELSE 1
         IN  Once(LAMBDA g : <<(s * n) \div g, (s * d) \div g>>,
                  Gcd(Abs(n), Abs(d)))

Norm(n, d) == Once2(NormV, n, d)

Q(n) == <<n, 1>>

Frac(n, d) == Norm(n, d)

Zero == Q(0)

One == Q(1)

AddV(a, b) ==
    IF IsErr(a) \/ IsErr(b) THEN ERR
    ELSE Once(LAMBDA g : Norm(a[1] * (b[2] \div g) + b[1] * (a[2] \div g),
                              (a[2] \div g) * b[2]),
              Gcd(a[2], b[2]))

Add(a, b) == Once2(AddV, a, b)

NegV(a) == IF IsErr(a) THEN ERR ELSE <<-a[1], a[2]>>

Sub(a, b) == Add(a, Once(NegV, b))

MulV(a, b) ==
    IF IsErr(a) \/ IsErr(b) THEN ERR
    ELSE IF a[1] = 0 \/ b[1] = 0 THEN Zero
    ELSE Once2(LAMBDA g1, g2 : <<(a[1] \div g1) * (b[1] \div g2),
                                 (a[2] \div g2) * (b[2] \div g1)>>,
               Gcd(Abs(a[1]), b[2]), Gcd(Abs(b[1]), a[2]))

Mul(a, b) == Once2(MulV, a, b)

\* a / b of Python: ZeroDivisionError when b is zero
DivV(a, b) ==
    IF IsErr(a) \/ IsErr(b) THEN ERR
    ELSE IF b[1] = 0 THEN ERR
    ELSE MulV(a, IF b[1] < 0 THEN <<-b[2], -b[1]>> ELSE <<b[2], b[1]>>)

Div(a, b) == Once2(DivV, a, b)

Sq(a) == Once(LAMBDA x : MulV(x, x), a)

\* 1 / r
Recip(r) == Div(One, r)

Add3(a, b, c) == Add(Add(a, b), c)

Mul3(a, b, c) == Mul(Mul(a, b), c)

\* [F(e) for e in lst]
Map(lst, F(_)) == Once(LAMBDA x : [i \in 1..Len(x) |-> F(x[i])], lst)

\* s[1] + ... + s[n], left to right from 0
RECURSIVE SumTo(_, _)
SumTo(s, n) == IF n = 0 THEN Zero ELSE Add(SumTo(s, n - 1), s[n])

\* sum(...) of Python over the values s: 0 for an empty list
SumSeq(s) == Once(LAMBDA x : SumTo(x, Len(x)), s)

(***************************************************************************)
(* The envelope elements of the zone.  An element is described by its      *)
(* kind k; the resistances, areas and optical values of different kinds    *)
(* differ, and so do the fields of one element among themselves.  r1, c1,  *)
(* c1_korr and ua_value are the stored results of the element's own        *)
(* calc_equivalent_res() and calc_ua_value(); calc holds what these two    *)
(* methods compute from the element as it is now.  An element the caller   *)
(* has calculated stores these values; one changed since its last          *)
(* calculation stores older ones.  wf_out is 0.0 until a weight factor is  *)
(* assigned.  The time constant r1 * c1 of a massive element is twice that *)
(* of the others.                                                          *)
(***************************************************************************)
Layer(e, a) == [material |-> [ir_emissivity |-> e, solar_absorp |-> a]]

Element(k, massive, calculated) ==
    [area         |-> Q(k),
     r_inner_conv |-> Frac(1, k),
     r_inner_rad  |-> Frac(1, k + 1),
     r_inner_comb |-> Frac(1, 2 * k + 1),
     r_outer_conv |-> Frac(1, k + 2),
     r_outer_rad  |-> Frac(1, k + 3),
     r_outer_comb |-> Frac(1, 2 * k + 5),
     layer        |-> <<Layer(Frac(k, k + 1), Frac(1, k + 1)),
                        Layer(Frac(1, k + 2), Frac(k, k + 2))>>,
     g_value      |-> Frac(k, k + 3),
     calc         |-> [r1 |-> Frac(IF massive THEN 2 ELSE 1, k), c1 |-> Q(k),
                       c1_korr |-> Q(k + 1), ua_value |-> Q(k + 1)],
     r1           |-> IF calculated THEN Frac(IF massive THEN 2 ELSE 1, k)
                      ELSE Frac(1, k + 1),
     c1           |-> IF calculated THEN Q(k) ELSE Q(k + 1),
     c1_korr      |-> IF calculated THEN Q(k + 1) ELSE Q(k + 2),
     ua_value     |-> IF calculated THEN Q(k + 1) ELSE Q(k),
     wf_out       |-> Zero]

\* element.calc_equivalent_res(): the element recomputes its own r1, c1, c1_korr
calc_equivalent_res(e) ==
    [e EXCEPT !.r1 = e.calc.r1, !.c1 = e.calc.c1, !.c1_korr = e.calc.c1_korr]

\* element.calc_ua_value(): the element recomputes its own ua_value
calc_ua_value(e) == [e EXCEPT !.ua_value = e.calc.ua_value]

\* a list of n elements of one category; the kinds start at first
ElementList(n, first, massive, calculated) ==
    [i \in 1..n |-> Element(first + i - 1, massive, calculated)]

\* the zone whose seven lists hold n[1], ..., n[7] elements
Zone(n, calculated) ==
    [outer_walls   |-> ElementList(n[1], 1, FALSE, calculated),
     ground_floors |-> ElementList(n[2], 2, FALSE, calculated),
     rooftops      |-> ElementList(n[3], 3, TRUE, calculated),
     windows       |-> ElementList(n[4], 1, FALSE, calculated),
     inner_walls   |-> ElementList(n[5], 1, FALSE, calculated),
     floors        |-> ElementList(n[6], 2, FALSE, calculated),
     ceilings      |-> ElementList(n[7], 3, TRUE, calculated)]

\* the lengths of the seven lists: up to MaxLen outer walls, windows and inner
\* walls, at most one ground floor, rooftop, floor and ceiling; a zone with a
\* ceiling has a floor, and one with a floor has an inner wall
Counts ==
    {n \in [1..7 -> 0..MaxLen] :
        /\ n[2] <= 1 /\ n[3] <= 1 /\ n[6] <= 1 /\ n[7] <= 1
        /\ n[5] >= n[6] /\ n[6] >= n[7]}

Zones == {Zone(n, calculated) : n \in Counts, calculated \in BOOLEAN}

\* the values t_bt is given: 1 and the default of the docstring (line 33)
TbtValues == {1, 5}

\* the values merge_windows is given: True, False and one that is neither (None)
MergeValues == {"True", "False", "None"}


(***************************************************************************)
(* The TwoElement instance.  te holds its attributes; Unset marks the      *)
(* attributes that __init__ does not create.                               *)
(***************************************************************************)
VARIABLES
    thermal_zone,   \* the zone: its seven element lists
    te,             \* the attributes of the TwoElement instance
    pc,             \* the pass __init__ runs next, or "idle" once it has ended
    ctor,           \* how __init__ ended: "running", "returned", "raised"
    res,            \* how the latest call of each method ended
    at,             \* the attribute whose assignment raised in that call
    chain           \* the last direct call of _calc_chain_matrix: args and result

vars == <<thermal_zone, te, pc, ctor, res, at, chain>>

Unset == <<0, -1>>

\* TwoElement.__init__, lines 231-351: every attribute starts at 0.0
InitialAttributes(merge_windows, t_bt) ==
    [merge_windows |-> merge_windows, t_bt |-> t_bt,
     area_iw |-> Zero,
     alpha_conv_inner_iw |-> Zero, alpha_rad_inner_iw |-> Zero,
     alpha_comb_inner_iw |-> Zero,
     alpha_conv_outer_iw |-> Zero, alpha_rad_outer_iw |-> Zero,
     alpha_comb_outer_iw |-> Zero,
     ua_value_iw |-> Zero,
     r_conv_inner_iw |-> Zero, r_rad_inner_iw |-> Zero, r_comb_inner_iw |-> Zero,
     r_conv_outer_iw |-> Zero, r_rad_outer_iw |-> Zero, r_comb_outer_iw |-> Zero,
     r1_iw |-> Zero, c1_iw |-> Zero,
     area_ow |-> Zero,
     alpha_conv_inner_ow |-> Zero, alpha_rad_inner_ow |-> Zero,
     alpha_comb_inner_ow |-> Zero,
     alpha_conv_outer_ow |-> Zero, alpha_rad_outer_ow |-> Zero,
     alpha_comb_outer_ow |-> Zero,
     ua_value_ow |-> Zero,
     r_conv_inner_ow |-> Zero, r_rad_inner_ow |-> Zero, r_comb_inner_ow |-> Zero,
     r_conv_outer_ow |-> Zero, r_rad_outer_ow |-> Zero, r_comb_outer_ow |-> Zero,
     r1_ow |-> Zero, r_rest_ow |-> Zero, c1_ow |-> Zero, r_total_ow |-> Zero,
     ir_emissivity_outer_ow |-> Zero, ir_emissivity_inner_ow |-> Zero,
     solar_absorp_ow |-> Zero,
     r_rad_ow_iw |-> Zero,
     area_win |-> Zero,
     alpha_conv_inner_win |-> Zero, alpha_rad_inner_win |-> Zero,
     alpha_comb_inner_win |-> Zero,
     alpha_conv_outer_win |-> Zero, alpha_rad_outer_win |-> Zero,
     alpha_comb_outer_win |-> Zero,
     ua_value_win |-> Zero,
     r_conv_inner_win |-> Zero, r_rad_inner_win |-> Zero, r_comb_inner_win |-> Zero,
     r_conv_outer_win |-> Zero, r_rad_outer_win |-> Zero, r_comb_outer_win |-> Zero,
     r1_win |-> Zero,
     ir_emissivity_outer_win |-> Zero, ir_emissivity_inner_win |-> Zero,
     solar_absorp_win |-> Zero,
     weighted_g_value |-> Zero,
     \* created by _sum_inner_wall_elements and _calc_inner_elements only
     ir_emissivity_inner_iw |-> Unset, r1_1w |-> Unset, c1_1w |-> Unset]

(***************************************************************************)
(* Running a method body.  A run is the instance, the zone, the exception  *)
(* raised so far, the attribute whose assignment raised it, and the        *)
(* warning flag.  The statements of a body apply in order: Then(s, L) is   *)
(* the run after statement L, and once a statement has raised the rest do  *)
(* nothing.                                                                *)
(***************************************************************************)
Begin(obj, zone) ==
    [obj |-> obj, zone |-> zone, exc |-> "none", at |-> "none", warned |-> FALSE]

Then(s, L(_)) == Once(LAMBDA x : IF x.exc # "none" THEN x ELSE L(x), s)

\* self.<f> = v, where evaluating v may divide by zero
Assign(s, f, v) ==
    Once(LAMBDA x : IF IsErr(x) THEN [s EXCEPT !.exc = "ZeroDivisionError", !.at = f]
                    ELSE [s EXCEPT !.obj[f] = x],
         v)

\* sum(e.<f> for e in lst)
FieldSum(lst, f) == SumSeq(Map(lst, LAMBDA e : e[f]))

\* sum(1 / e.<f> for e in lst)
InvSum(lst, f) == SumSeq(Map(lst, LAMBDA e : Recip(e[f])))

\* sum(e.layer[0].material.<prop> * e.area for e in lst): the zone-facing layer
InnerLayerSum(lst, prop) ==
    SumSeq(Map(lst, LAMBDA e : Mul(e.layer[1].material[prop], e.area)))

\* sum(e.layer[-1].material.<prop> * e.area for e in lst): the ambient-facing layer
OuterLayerSum(lst, prop) ==
    SumSeq(Map(lst, LAMBDA e : Mul(e.layer[Len(e.layer)].material[prop], e.area)))

\* 1 / (a + b + c), the combined resistance of three lists' sums of 1 / r
Parallel3(a, b, c) == Recip(Add3(a, b, c))

\* 1 / (a + b)
Parallel2(a, b) == Recip(Add(a, b))

\* 1 / (self.<r> * self.<area>), a coefficient of heat transfer
Alpha(s, r, area) == Recip(Mul(s.obj[r], s.obj[area]))

(***************************************************************************)
(* TwoElement._sum_outer_wall_elements, lines 455-548.  L<n> is the        *)
(* statement that starts at line n.                                        *)
(***************************************************************************)
sum_outer_wall_elements(s0) ==
    LET ow == s0.zone.outer_walls
        gf == s0.zone.ground_floors
        rt == s0.zone.rooftops
        L455(s) == Assign(s, "area_ow",
                       Add3(FieldSum(ow, "area"), FieldSum(gf, "area"),
                            FieldSum(rt, "area")))
        L463(s) == Assign(s, "ua_value_ow",
                       Add3(FieldSum(ow, "ua_value"), FieldSum(gf, "ua_value"),
                            FieldSum(rt, "ua_value")))
        \* values facing the inside of the thermal zone
        L473(s) == Assign(s, "r_conv_inner_ow",
                       Parallel3(InvSum(ow, "r_inner_conv"),
                                 InvSum(gf, "r_inner_conv"),
                                 InvSum(rt, "r_inner_conv")))
        L481(s) == Assign(s, "r_rad_inner_ow",
                       Parallel3(InvSum(ow, "r_inner_rad"),
                                 InvSum(gf, "r_inner_rad"),
                                 InvSum(rt, "r_inner_rad")))
        L489(s) == Assign(s, "r_comb_inner_ow",
                       Parallel3(InvSum(ow, "r_inner_comb"),
                                 InvSum(gf, "r_inner_comb"),
                                 InvSum(rt, "r_inner_comb")))
        \* only the rooftops' sum is divided by the area
        L497(s) == Assign(s, "ir_emissivity_inner_ow",
                       Add3(InnerLayerSum(ow, "ir_emissivity"),
                            InnerLayerSum(gf, "ir_emissivity"),
                            Div(InnerLayerSum(rt, "ir_emissivity"), s.obj.area_ow)))
        L505(s) == Assign(s, "alpha_conv_inner_ow",
                       Alpha(s, "r_conv_inner_ow", "area_ow"))
        L507(s) == Assign(s, "alpha_rad_inner_ow",
                       Alpha(s, "r_rad_inner_ow", "area_ow"))
        L509(s) == Assign(s, "alpha_comb_inner_ow",
                       Alpha(s, "r_comb_inner_ow", "area_ow"))
        \* values facing the ambient: ground floors have none
        L515(s) == Assign(s, "r_conv_outer_ow",
                       Parallel2(InvSum(ow, "r_outer_conv"),
                                 InvSum(rt, "r_outer_conv")))
        L520(s) == Assign(s, "r_rad_outer_ow",
                       Parallel2(InvSum(ow, "r_outer_rad"),
                                 InvSum(rt, "r_outer_rad")))
        L525(s) == Assign(s, "r_comb_outer_ow",
                       Parallel2(InvSum(ow, "r_outer_comb"),
                                 InvSum(rt, "r_outer_comb")))
        L531(s) == Assign(s, "ir_emissivity_outer_ow",
                       Add(OuterLayerSum(ow, "ir_emissivity"),
                           Div(OuterLayerSum(rt, "ir_emissivity"), s.obj.area_ow)))
        L537(s) == Assign(s, "solar_absorp_ow",
                       Add(OuterLayerSum(ow, "solar_absorp"),
                           Div(OuterLayerSum(rt, "solar_absorp"), s.obj.area_ow)))
        L543(s) == Assign(s, "alpha_conv_outer_ow",
                       Alpha(s, "r_conv_outer_ow", "area_ow"))
        L545(s) == Assign(s, "alpha_rad_outer_ow",
                       Alpha(s, "r_rad_outer_ow", "area_ow"))
        L547(s) == Assign(s, "alpha_comb_outer_ow",
                       Alpha(s, "r_comb_outer_ow", "area_ow"))
    IN  Then(Then(Then(Then(Then(Then(Then(Then(Then(Then(Then(Then(Then(Then(
        Then(Then(Then(s0,
            L455), L463), L473), L481), L489), L497), L505), L507), L509),
            L515), L520), L525), L531), L537), L543), L545), L547)

(***************************************************************************)
(* TwoElement._sum_inner_wall_elements, lines 565-620.                     *)
(***************************************************************************)
sum_inner_wall_elements(s0) ==
    LET iw == s0.zone.inner_walls
        fl == s0.zone.floors
        ce == s0.zone.ceilings
        L565(s) == Assign(s, "area_iw",
                       Add3(FieldSum(iw, "area"), FieldSum(fl, "area"),
                            FieldSum(ce, "area")))
        L573(s) == Assign(s, "ua_value_iw",
                       Add3(FieldSum(iw, "ua_value"), FieldSum(fl, "ua_value"),
                            FieldSum(ce, "ua_value")))
        L583(s) == Assign(s, "r_conv_inner_iw",
                       Parallel3(InvSum(iw, "r_inner_conv"),
                                 InvSum(fl, "r_inner_conv"),
                                 InvSum(ce, "r_inner_conv")))
        L591(s) == Assign(s, "r_rad_inner_iw",
                       Parallel3(InvSum(iw, "r_inner_rad"),
                                 InvSum(fl, "r_inner_rad"),
                                 InvSum(ce, "r_inner_rad")))
        L599(s) == Assign(s, "r_comb_inner_iw",
                       Parallel3(InvSum(iw, "r_inner_comb"),
                                 InvSum(fl, "r_inner_comb"),
                                 InvSum(ce, "r_inner_comb")))
        L607(s) == Assign(s, "ir_emissivity_inner_iw",
                       Add3(InnerLayerSum(iw, "ir_emissivity"),
                            InnerLayerSum(fl, "ir_emissivity"),
                            Div(InnerLayerSum(ce, "ir_emissivity"), s.obj.area_iw)))
        L615(s) == Assign(s, "alpha_conv_inner_iw",
                       Alpha(s, "r_conv_inner_iw", "area_iw"))
        L617(s) == Assign(s, "alpha_rad_inner_iw",
                       Alpha(s, "r_rad_inner_iw", "area_iw"))
        L619(s) == Assign(s, "alpha_comb_inner_iw",
                       Alpha(s, "r_comb_inner_iw", "area_iw"))
    IN  Then(Then(Then(Then(Then(Then(Then(Then(Then(s0,
            L565), L573), L583), L591), L599), L607), L615), L617), L619)

(***************************************************************************)
(* TwoElement._sum_window_elements, lines 634-686.  Lines 642-650 assign   *)
(* r_rad_inner_ow, r_comb_inner_ow and ir_emissivity_inner_ow; lines       *)
(* 654-657 read r_rad_inner_win and r_comb_inner_win.                      *)
(***************************************************************************)
\* line 642 assigning the attribute that lines 654 and 753 read
WindowRadFixed == "r_rad_inner_win"

\* the attributes that lines 642, 645 and 648 assign
WindowRadTarget == "r_rad_inner_ow"

WindowCombTarget == "r_comb_inner_ow"

WindowEmissivityTarget == "ir_emissivity_inner_ow"

sum_window_elements(s0) ==
    LET win == s0.zone.windows
        L634(s) == Assign(s, "area_win", FieldSum(win, "area"))
        L635(s) == Assign(s, "ua_value_win", FieldSum(win, "ua_value"))
        \* values facing the inside of the thermal zone
        L639(s) == Assign(s, "r_conv_inner_win", Recip(InvSum(win, "r_inner_conv")))
        L642(s) == Assign(s, WindowRadTarget, Recip(InvSum(win, "r_inner_rad")))
        L645(s) == Assign(s, WindowCombTarget, Recip(InvSum(win, "r_inner_comb")))
        L648(s) == Assign(s, WindowEmissivityTarget,
                       InnerLayerSum(win, "ir_emissivity"))
        L652(s) == Assign(s, "alpha_conv_inner_win",
                       Alpha(s, "r_conv_inner_win", "area_win"))
        L654(s) == Assign(s, "alpha_rad_inner_win",
                       Alpha(s, "r_rad_inner_win", "area_win"))
        L656(s) == Assign(s, "alpha_comb_inner_win",
                       Alpha(s, "r_comb_inner_win", "area_win"))
        \* values facing the ambient
        L661(s) == Assign(s, "r_conv_outer_win", Recip(InvSum(win, "r_outer_conv")))
        L664(s) == Assign(s, "r_rad_outer_win", Recip(InvSum(win, "r_outer_rad")))
        L667(s) == Assign(s, "r_comb_outer_win", Recip(InvSum(win, "r_outer_comb")))
        L670(s) == Assign(s, "ir_emissivity_outer_win",
                       OuterLayerSum(win, "ir_emissivity"))
        L674(s) == Assign(s, "solar_absorp_win", OuterLayerSum(win, "solar_absorp"))
        L678(s) == Assign(s, "weighted_g_value",
                       SumSeq(Map(win, LAMBDA e : Mul(e.g_value, e.area))))
        L681(s) == Assign(s, "alpha_conv_outer_win",
                       Alpha(s, "r_conv_outer_win", "area_win"))
        L683(s) == Assign(s, "alpha_rad_outer_win",
                       Alpha(s, "r_rad_outer_win", "area_win"))
        L685(s) == Assign(s, "alpha_comb_outer_win",
                       Alpha(s, "r_comb_outer_win", "area_win"))
    IN  Then(Then(Then(Then(Then(Then(Then(Then(Then(Then(Then(Then(Then(Then(
        Then(Then(Then(Then(s0,
            L634), L635), L639), L642), L645), L648), L652), L654), L656),
            L661), L664), L667), L670), L674), L678), L681), L683), L685)

(***************************************************************************)
(* TwoElement._calc_chain_matrix, lines 384-440.  omega is a rational: the *)
(* unit of time is chosen so that the 2 * math.pi / 86400 of line 703 is   *)
(* 1.  The result is <<r1, c1>>.                                           *)
(***************************************************************************)
\* the two formulas of the loop body on the pairs (r1a, c1a) and (r1b, c1b)
ChainR1(r1a, c1a, r1b, c1b, w) ==
    Div(Add3(Mul(r1a, Sq(c1a)),
             Mul(r1b, Sq(c1b)),
             Mul(Mul3(w, r1a, r1b), Mul3(Add(r1a, r1b), Sq(c1a), Sq(c1b)))),
        Add(Sq(Add(c1a, c1b)),
            Mul(Mul(w, Sq(Add(r1a, r1b))), Mul(Sq(c1a), Sq(c1b)))))

ChainC1(r1a, c1a, r1b, c1b, w) ==
    Div(Add(Sq(Add(c1a, c1b)),
            Mul(Mul(w, Sq(Add(r1a, r1b))), Mul(Sq(c1a), Sq(c1b)))),
        Add3(c1a, c1b,
             Mul(Mul(w, Add(Mul(Sq(r1a), c1a), Mul(Sq(r1b), c1b))),
                 Mul(c1a, c1b))))

\* ChainFirst with the resistances weighted by c1, not by its square
ChainFirstLinear(a, b, omega) ==
    Once(LAMBDA w : <<Div(Add3(Mul(a.r1, a.c1),
                               Mul(b.r1, b.c1),
                               Mul(Mul3(w, a.r1, b.r1),
                                   Mul3(Add(a.r1, b.r1), Sq(a.c1), Sq(b.c1)))),
                          Add(Sq(Add(a.c1, b.c1)),
                              Mul(Mul(w, Sq(Add(a.r1, b.r1))),
                                  Mul(Sq(a.c1), Sq(b.c1))))),
                      ChainC1(a.r1, a.c1, b.r1, b.c1, w)>>,
         Sq(omega))

\* lines 388-418, wall_count == 0: the first two elements combined
ChainFirst(a, b, omega) ==
    Once(LAMBDA w : <<ChainR1(a.r1, a.c1, b.r1, b.c1, w),
                      ChainC1(a.r1, a.c1, b.r1, b.c1, w)>>,
         Sq(omega))

\* ChainNext without the terms in omega ** 2
ChainNextStatic(x, b, omega) ==
    <<ChainR1(x[1], x[2], b.r1, b.c1, Zero), ChainC1(x[1], x[2], b.r1, b.c1, Zero)>>

\* lines 420-439, wall_count > 0: the running pair x = (r1x, c1x) and element b
ChainNext(x, b, omega) ==
    Once(LAMBDA w : <<ChainR1(x[1], x[2], b.r1, b.c1, w),
                      ChainC1(x[1], x[2], b.r1, b.c1, w)>>,
         Sq(omega))

\* the loop left after its first pass
ChainLoopOnce(element_list, omega, n) ==
    ChainFirst(element_list[1], element_list[2], omega)

\* the pair after the passes wall_count = 0 .. n - 1 of the loop (n >= 1)
RECURSIVE ChainLoop(_, _, _)
ChainLoop(element_list, omega, n) ==
    IF n = 1 THEN ChainFirst(element_list[1], element_list[2], omega)
    ELSE Once(LAMBDA x : ChainNext(x, element_list[n + 1], omega),
              ChainLoop(element_list, omega, n - 1))

\* the call: the returned pair and the exception raised.  With fewer than two
\* elements the loop body never runs and "return r1, c1" reads unbound locals.
calc_chain_matrix(element_list, omega) ==
    IF Len(element_list) < 2
    THEN [ret |-> <<Unset, Unset>>, exc |-> "UnboundLocalError"]
    ELSE Once(LAMBDA x : IF IsErr(x[1]) \/ IsErr(x[2])
                         THEN [ret |-> <<Unset, Unset>>, exc |-> "ZeroDivisionError"]
                         ELSE [ret |-> x, exc |-> "none"],
              ChainLoop(element_list, omega, Len(element_list) - 1))

(***************************************************************************)
(* TwoElement._calc_outer_elements, lines 703-780.                         *)
(***************************************************************************)
\* line 703: omega = 2 * math.pi / 86400 / self.t_bt, in the unit of time above
Omega(t_bt) == Div(One, Q(t_bt))

\* lines 705-707 and 836-838
OuterWalls(zone) == zone.outer_walls \o zone.ground_floors \o zone.rooftops

\* lines 800-802
InnerWalls(zone) == zone.inner_walls \o zone.floors \o zone.ceilings

CalcElement(e) == calc_ua_value(calc_equivalent_res(e))

\* lines 709-714: every outer element and every window recalculates itself
CalcOuterAndWindows(s) ==
    [s EXCEPT !.zone.outer_walls   = Map(s.zone.outer_walls, CalcElement),
              !.zone.ground_floors = Map(s.zone.ground_floors, CalcElement),
              !.zone.rooftops      = Map(s.zone.rooftops, CalcElement),
              !.zone.windows       = Map(s.zone.windows, CalcElement)]

\* self.<f1>, self.<f2> = self._calc_chain_matrix(element_list, omega)
AssignChain(s, f1, f2, element_list, omega) ==
    Once(LAMBDA c : IF c.exc # "none" THEN [s EXCEPT !.exc = c.exc, !.at = f1]
                    ELSE [s EXCEPT !.obj[f1] = c.ret[1], !.obj[f2] = c.ret[2]],
         calc_chain_matrix(element_list, omega))

\* warnings.warn(...)
Warn(s) == [s EXCEPT !.warned = TRUE]

\* LumpOuter with the capacity of line 719 taken from c1, not c1_korr
LumpOuterUncorrected(s) ==
    LET outer_walls == OuterWalls(s.zone)
    IN  IF 0 < Len(outer_walls) /\ Len(outer_walls) <= 1
        THEN [s EXCEPT !.obj.r1_ow = outer_walls[1].r1,
                       !.obj.c1_ow = outer_walls[1].c1]
        ELSE IF Len(outer_walls) > 1
        THEN AssignChain(s, "r1_ow", "c1_ow", outer_walls, Omega(s.obj.t_bt))
        ELSE Warn(s)

\* lines 716-727: the reduced pair of the outer elements
LumpOuter(s) ==
    LET outer_walls == OuterWalls(s.zone)
    IN  IF 0 < Len(outer_walls) /\ Len(outer_walls) <= 1
        THEN [s EXCEPT !.obj.r1_ow = outer_walls[1].r1,
                       !.obj.c1_ow = outer_walls[1].c1_korr]
        ELSE IF Len(outer_walls) > 1
        THEN AssignChain(s, "r1_ow", "c1_ow", outer_walls, Omega(s.obj.t_bt))
        ELSE Warn(s)

\* 1 / (1 / a + 1 / b): the resistances a and b in parallel
Par2(a, b) == Recip(Add(Recip(a), Recip(b)))

\* 1 / (1 / a + 1 / b + 1 / c)
Par3(a, b, c) == Recip(Add3(Recip(a), Recip(b), Recip(c)))

\* lines 730-739, merge_windows is False.  The except clause of line 741
\* catches RuntimeError, which ZeroDivisionError is not.
SeparateWindows(s0) ==
    LET win == s0.zone.windows
        L731(s) == Assign(s, "r1_win",
                       Recip(SumSeq(Map(win,
                           LAMBDA e : Recip(Add(e.r1, e.r_outer_comb))))))
        L734(s) == Assign(s, "r_total_ow", Recip(s.obj.ua_value_ow))
        L736(s) == Assign(s, "r_rad_ow_iw", Recip(Recip(s.obj.r_rad_inner_ow)))
        L738(s) == Assign(s, "r_rest_ow",
                       Sub(Sub(s.obj.r_total_ow, s.obj.r1_ow),
                           Par2(s.obj.r_conv_inner_ow, s.obj.r_rad_ow_iw)))
    IN  Then(Then(Then(Then(s0, L731), L734), L736), L738)

\* (self.<f> * self.area_ow + self.<g> * self.area_win)
\*     / (self.area_ow + self.area_win)
Reweight(s, f, g) ==
    Div(Add(Mul(s.obj[f], s.obj.area_ow), Mul(s.obj[g], s.obj.area_win)),
        Add(s.obj.area_ow, s.obj.area_win))

\* lines 747-776, merge_windows is True
MergeWindows(s0) ==
    LET win == s0.zone.windows
        L748(s) == Assign(s, "r1_win",
                       SumSeq(Map(win, LAMBDA e : Recip(Div(e.r1, Q(6))))))
        L751(s) == Assign(s, "r1_ow", Recip(Add(Recip(s.obj.r1_ow), s.obj.r1_win)))
        L752(s) == Assign(s, "r_total_ow",
                       Recip(Add(s.obj.ua_value_ow, s.obj.ua_value_win)))
        L753(s) == Assign(s, "r_rad_ow_iw",
                       Par2(s.obj.r_rad_inner_ow, s.obj.r_rad_inner_win))
        L756(s) == Assign(s, "r_rest_ow",
                       Sub(Sub(s.obj.r_total_ow, s.obj.r1_ow),
                           Par3(s.obj.r_conv_inner_ow, s.obj.r_conv_inner_win,
                                s.obj.r_rad_ow_iw)))
        L763(s) == Assign(s, "ir_emissivity_inner_ow",
                       Reweight(s, "ir_emissivity_inner_ow",
                                "ir_emissivity_inner_win"))
        L768(s) == Assign(s, "ir_emissivity_outer_ow",
                       Reweight(s, "ir_emissivity_outer_ow",
                                "ir_emissivity_outer_win"))
        L773(s) == Assign(s, "solar_absorp_ow",
                       Reweight(s, "solar_absorp_ow", "solar_absorp_win"))
    IN  Then(Then(Then(Then(Then(Then(Then(Then(s0,
            L748), L751), L752), L753), L756), L763), L768), L773)

\* lines 729 and 745: the two tests of merge_windows, one after the other
calc_outer_elements(s0) ==
    LET L709(s) == CalcOuterAndWindows(s)
        L729(s) == IF s.obj.merge_windows = "False" THEN SeparateWindows(s) ELSE s
        L745(s) == IF s.obj.merge_windows = "True" THEN MergeWindows(s) ELSE s
    IN  Then(Then(Then(Then(s0, L709), LumpOuter), L729), L745)

(***************************************************************************)
(* TwoElement._calc_inner_elements, lines 798-820.                         *)
(***************************************************************************)
\* lines 804-806
CalcInner(s) ==
    [s EXCEPT !.zone.inner_walls = Map(s.zone.inner_walls, CalcElement),
              !.zone.floors      = Map(s.zone.floors, CalcElement),
              !.zone.ceilings    = Map(s.zone.ceilings, CalcElement)]

\* LumpInner without the branch of line 808 for a single element
LumpInnerUnguarded(s) ==
    LET inner_walls == InnerWalls(s.zone)
    IN  IF Len(inner_walls) > 0
        THEN AssignChain(s, "r1_1w", "c1_1w", inner_walls, Omega(s.obj.t_bt))
        ELSE Warn(s)

\* lines 808-820: the pair is stored in r1_1w and c1_1w
LumpInner(s) ==
    LET inner_walls == InnerWalls(s.zone)
    IN  IF 0 < Len(inner_walls) /\ Len(inner_walls) <= 1
        THEN [s EXCEPT !.obj.r1_1w = inner_walls[1].r1,
                       !.obj.c1_1w = inner_walls[1].c1_korr]
        ELSE IF Len(inner_walls) > 1
        THEN AssignChain(s, "r1_1w", "c1_1w", inner_walls, Omega(s.obj.t_bt))
        ELSE Warn(s)

calc_inner_elements(s0) == Then(Then(s0, CalcInner), LumpInner)

(***************************************************************************)
(* TwoElement._calc_wf, lines 836-859.                                     *)
(***************************************************************************)
\* AssignWf storing the share in the element's ua_value as well
AssignWfAndUa(s, category, denominator) ==
    Once(LAMBDA d :
             IF s.zone[category] = <<>> THEN s
             ELSE IF d[1] = 0
             THEN [s EXCEPT !.exc = "ZeroDivisionError", !.at = "wf_out"]
             ELSE [s EXCEPT !.zone[category] =
                       Map(s.zone[category],
                           LAMBDA e : [e EXCEPT !.wf_out = Div(e.ua_value, d),
                                                !.ua_value = Div(e.ua_value, d)])],
         denominator)

\* for e in lst: e.wf_out = e.ua_value / denominator.  With a zero
\* denominator the first element raises.
AssignWf(s, category, denominator) ==
    Once(LAMBDA d :
             IF s.zone[category] = <<>> THEN s
             ELSE IF d[1] = 0
             THEN [s EXCEPT !.exc = "ZeroDivisionError", !.at = "wf_out"]
             ELSE [s EXCEPT !.zone[category] =
                       Map(s.zone[category],
                           LAMBDA e : [e EXCEPT !.wf_out = Div(e.ua_value, d)])],
         denominator)

\* lines 842-844 and 852-853: for wall in outer_walls
AssignWfOuter(s, denominator) ==
    LET ow(x) == AssignWf(x, "outer_walls", denominator)
        gf(x) == AssignWf(x, "ground_floors", denominator)
        rt(x) == AssignWf(x, "rooftops", denominator)
    IN  Then(Then(Then(s, ow), gf), rt)

calc_wf(s0) ==
    LET L842(s) == AssignWfOuter(s, Add(s.obj.ua_value_ow, s.obj.ua_value_win))
        L846(s) == AssignWf(s, "windows",
                       Add(s.obj.ua_value_ow, s.obj.ua_value_win))
        L852(s) == AssignWfOuter(s, s.obj.ua_value_ow)
        L855(s) == AssignWf(s, "windows", s.obj.ua_value_win)
        L859(s) == [s EXCEPT !.exc = "ValueError"]
    IN  IF s0.obj.merge_windows = "True" THEN Then(Then(s0, L842), L846)
        ELSE IF s0.obj.merge_windows = "False" THEN Then(Then(s0, L852), L855)
        ELSE Then(s0, L859)

(***************************************************************************)
(* The state machine.  __init__ (lines 353-357) runs five passes in order  *)
(* and ends when the last returns or the first raises.  After that the     *)
(* lumping methods (_calc_outer_elements, _calc_inner_elements, _calc_wf)  *)
(* are called on the instance __init__ worked on, one at a time, in any    *)
(* order; _calc_inner_elements is called in no other way.                  *)
(***************************************************************************)
Methods ==
    {"sum_outer_wall_elements", "sum_inner_wall_elements", "sum_window_elements",
     "calc_outer_elements", "calc_inner_elements", "calc_wf"}

\* how a call ended: the exception it raised, or that it returned
Outcome(s) ==
    IF s.exc # "none" THEN s.exc
    ELSE IF s.warned THEN "returned with warning"
    ELSE "returned"

Returned(m) == res[m] \in {"returned", "returned with warning"}

NoChain == [element_list |-> <<>>, omega |-> Zero, ret |-> <<Unset, Unset>>,
            exc |-> "none", called |-> FALSE]

Init ==
    /\ thermal_zone \in Zones
    /\ \E merge_windows \in MergeValues, t_bt \in TbtValues :
           te = InitialAttributes(merge_windows, t_bt)
    /\ pc = "sum_outer_wall_elements"
    /\ ctor = "running"
    /\ res = [m \in Methods |-> "not called"]
    /\ at = [m \in Methods |-> "none"]
    /\ chain = NoChain

\* lines 353-357: the pass after p
NextPass(p) ==
    CASE p = "sum_outer_wall_elements" -> "sum_inner_wall_elements"
      [] p = "sum_inner_wall_elements" -> "sum_window_elements"
      [] p = "sum_window_elements"     -> "calc_outer_elements"
      [] p = "calc_outer_elements"     -> "calc_wf"
      [] p = "calc_wf"                 -> "idle"

\* the methods called on the instance once __init__ has ended
Callable == {"calc_outer_elements", "calc_inner_elements", "calc_wf"}

\* the method name is called and ends as the run s
Call(name, s) ==
    /\ pc = name \/ (pc = "idle" /\ name \in Callable)
    /\ thermal_zone' = s.zone
    /\ te' = s.obj
    /\ res' = [res EXCEPT ![name] = Outcome(s)]
    /\ at' = [at EXCEPT ![name] = s.at]
    /\ pc' = IF pc = "idle" \/ s.exc # "none" THEN "idle" ELSE NextPass(pc)
    /\ ctor' = IF pc = "idle" THEN ctor
               ELSE IF s.exc # "none" THEN "raised"
               ELSE IF NextPass(pc) = "idle" THEN "returned"
               ELSE "running"
    /\ UNCHANGED chain

SumOuterWallElements ==
    \E s \in {sum_outer_wall_elements(Begin(te, thermal_zone))} : Call("sum_outer_wall_elements", s)

SumInnerWallElements ==
    \E s \in {sum_inner_wall_elements(Begin(te, thermal_zone))} : Call("sum_inner_wall_elements", s)

SumWindowElements ==
    \E s \in {sum_window_elements(Begin(te, thermal_zone))} : Call("sum_window_elements", s)

CalcOuterElements ==
    \E s \in {calc_outer_elements(Begin(te, thermal_zone))} : Call("calc_outer_elements", s)

CalcInnerElements ==
    \E s \in {calc_inner_elements(Begin(te, thermal_zone))} : Call("calc_inner_elements", s)

CalcWf ==
    \E s \in {calc_wf(Begin(te, thermal_zone))} : Call("calc_wf", s)

Next ==
    \/ SumOuterWallElements
    \/ SumInnerWallElements
    \/ SumWindowElements
    \/ CalcOuterElements
    \/ CalcInnerElements
    \/ CalcWf

Spec == Init /\ [][Next]_vars

(***************************************************************************)
(* _calc_chain_matrix called directly, as the pure function it is, on      *)
(* lists of up to MaxChain (r1, c1) elements.                              *)
(***************************************************************************)
\* the capacities c1, and the conductances 1 / r1, of the elements
ChainValues == {1, 2}

ChainElements ==
    {[r1 |-> Frac(1, k), c1 |-> Q(c)] : k \in ChainValues, c \in ChainValues}

ChainLists == UNION {[1..n -> ChainElements] : n \in 0..MaxChain}

ChainOmegas == {Q(n) : n \in 0..MaxOmega}

InitChain ==
    /\ thermal_zone = Zone([i \in 1..7 |-> 0], TRUE)
    /\ te = InitialAttributes("False", 1)
    /\ pc = "idle"
    /\ ctor = "returned"
    /\ res = [m \in Methods |-> "not called"]
    /\ at = [m \in Methods |-> "none"]
    /\ chain = NoChain

CalcChainMatrix ==
    /\ ~chain.called
    /\ \E element_list \in ChainLists, omega \in ChainOmegas :
           \E c \in {calc_chain_matrix(element_list, omega)} :
               chain' = [element_list |-> element_list, omega |-> omega,
                         ret |-> c.ret, exc |-> c.exc, called |-> TRUE]
    /\ UNCHANGED <<thermal_zone, te, pc, ctor, res, at>>

NextChain == CalcChainMatrix

SpecChain == InitChain /\ [][NextChain]_vars

(***************************************************************************)
(* Properties of the constructor and of the aggregation passes.            *)
(***************************************************************************)
Booleans == {"True", "False"}

\* sum(e.wf_out for e in lst)
WfSum(lst) == FieldSum(lst, "wf_out")

\* C1: once __init__ has ended on a zone whose outer set (outer_walls +
\* ground_floors + rooftops) is not empty, the weight factors are normalized:
\* with merge_windows False the wf_out of the outer elements sum to 1, and so
\* do those of the windows; with merge_windows True the wf_out of the outer
\* elements and of the windows together sum to 1.
WeightFactorsNormalized ==
    (/\ ctor # "running"
     /\ OuterWalls(thermal_zone) # <<>>
     /\ te.merge_windows \in Booleans)
    => IF te.merge_windows = "False"
       THEN /\ WfSum(OuterWalls(thermal_zone)) = One
            /\ thermal_zone.windows # <<>> => WfSum(thermal_zone.windows) = One
       ELSE Add(WfSum(OuterWalls(thermal_zone)), WfSum(thermal_zone.windows)) = One

\* r_total_ow = r1_ow + r_rest_ow + 1 / (1 / r_conv_inner_ow + 1 / r_rad_ow_iw)
Consistent(obj) ==
    obj.r_total_ow = Add3(obj.r1_ow, obj.r_rest_ow,
                          Par2(obj.r_conv_inner_ow, obj.r_rad_ow_iw))

EmptyGroup(zone) ==
    \/ OuterWalls(zone) = <<>>
    \/ zone.windows = <<>>
    \/ InnerWalls(zone) = <<>>

\* C3: when the zone has no outer elements, or no windows, or no inner
\* elements, __init__ ends with the condition reported, by a warning, and no
\* pass ends in a ZeroDivisionError.
EmptyGroupReported ==
    [][(ctor = "running" /\ ctor' # "running" /\ EmptyGroup(thermal_zone))
       => /\ \A m \in Methods : res'[m] # "ZeroDivisionError"
          /\ \E m \in Methods : res'[m] = "returned with warning"]_vars

\* C4: a merge_windows that is neither True nor False is rejected by
\* _calc_outer_elements with a configuration error (ValueError).
InvalidPolicyRejected ==
    [][(CalcOuterElements /\ te.merge_windows \notin Booleans)
       => res'["calc_outer_elements"] = "ValueError"]_vars

\* 1 / sum(1 / e.<f> for e in lst)
ParallelOf(lst, f) == Recip(InvSum(lst, f))

\* C5: once the three aggregation passes have run on a zone with outer
\* elements and windows, each combined inner resistance is the parallel
\* combination of the resistances of its own group's members.
ParallelResistanceLaw ==
    (/\ res["sum_window_elements"] # "not called"
     /\ OuterWalls(thermal_zone) # <<>>
     /\ thermal_zone.windows # <<>>)
    => /\ te.r_conv_inner_ow = ParallelOf(OuterWalls(thermal_zone), "r_inner_conv")
       /\ te.r_rad_inner_ow = ParallelOf(OuterWalls(thermal_zone), "r_inner_rad")
       /\ te.r_comb_inner_ow = ParallelOf(OuterWalls(thermal_zone), "r_inner_comb")
       /\ te.r_conv_inner_win = ParallelOf(thermal_zone.windows, "r_inner_conv")
       /\ te.r_rad_inner_win = ParallelOf(thermal_zone.windows, "r_inner_rad")
       /\ te.r_comb_inner_win = ParallelOf(thermal_zone.windows, "r_inner_comb")

\* the aggregate attributes of the group with suffix g ("ow", "iw" or "win")
AggregateFields(g) ==
    IF g = "ow"
        THEN {"area_ow", "ua_value_ow",
              "r_conv_inner_ow", "r_rad_inner_ow", "r_comb_inner_ow",
              "r_conv_outer_ow", "r_rad_outer_ow", "r_comb_outer_ow",
              "alpha_conv_inner_ow", "alpha_rad_inner_ow", "alpha_comb_inner_ow",
              "alpha_conv_outer_ow", "alpha_rad_outer_ow", "alpha_comb_outer_ow",
              "ir_emissivity_inner_ow", "ir_emissivity_outer_ow", "solar_absorp_ow"}
        ELSE IF g = "iw"
        THEN {"area_iw", "ua_value_iw",
              "r_conv_inner_iw", "r_rad_inner_iw", "r_comb_inner_iw",
              "alpha_conv_inner_iw", "alpha_rad_inner_iw", "alpha_comb_inner_iw",
              "ir_emissivity_inner_iw"}
        ELSE {"area_win", "ua_value_win",
              "r_conv_inner_win", "r_rad_inner_win", "r_comb_inner_win",
              "r_conv_outer_win", "r_rad_outer_win", "r_comb_outer_win",
              "alpha_conv_inner_win", "alpha_rad_inner_win", "alpha_comb_inner_win",
              "alpha_conv_outer_win", "alpha_rad_outer_win", "alpha_comb_outer_win",
              "ir_emissivity_inner_win", "ir_emissivity_outer_win",
              "solar_absorp_win", "weighted_g_value"}

\* C6: each aggregation pass writes the aggregate attributes of its own group
\* only: _sum_window_elements leaves those of the outer and of the inner
\* elements as they were, _sum_inner_wall_elements those of the outer elements
\* and of the windows.
AggregationFrame ==
    [][/\ SumWindowElements
          => \A f \in AggregateFields("ow") \cup AggregateFields("iw") :
                 te'[f] = te[f]
       /\ SumInnerWallElements
          => \A f \in AggregateFields("ow") \cup AggregateFields("win") :
                 te'[f] = te[f]]_vars

(***************************************************************************)
(* Properties of the reduction and of the window policies.                 *)
(***************************************************************************)
\* lines 709-727 on the instance and zone as they are: the elements
\* recalculated and the outer pair reduced
Reduced == LumpOuter(CalcOuterAndWindows(Begin(te, thermal_zone)))

\* C7: for an outer set of exactly one element, the pair that
\* _calc_outer_elements reduces the set to is the element's own: r1_ow is its
\* r1 and c1_ow its c1_korr, whatever t_bt is.  The call leaves this pair in
\* the instance; only line 751, under merge_windows True, then folds the
\* windows into r1_ow.
SingleOuterElementPair ==
    [][(CalcOuterElements /\ Len(OuterWalls(thermal_zone)) = 1)
       => /\ Reduced.obj.r1_ow = OuterWalls(thermal_zone')[1].r1
          /\ Reduced.obj.c1_ow = OuterWalls(thermal_zone')[1].c1_korr
          /\ te'.c1_ow = Reduced.obj.c1_ow
          /\ te.merge_windows # "True" => te'.r1_ow = Reduced.obj.r1_ow
          /\ \A t_bt \in TbtValues :
                 LET other == LumpOuter(CalcOuterAndWindows(
                                  Begin([te EXCEPT !.t_bt = t_bt], thermal_zone)))
                 IN  /\ other.obj.r1_ow = Reduced.obj.r1_ow
                     /\ other.obj.c1_ow = Reduced.obj.c1_ow]_vars

\* _calc_outer_elements has returned for a zone with one outer element, an
\* element that had changed since it was last calculated, with t_bt 5
SingleOuterElementLumped ==
    /\ Returned("calc_outer_elements")
    /\ Len(OuterWalls(thermal_zone)) = 1
    /\ te.t_bt = 5
    /\ te.merge_windows = "False"
    /\ te.r1_ow = OuterWalls(thermal_zone)[1].calc.r1
    /\ te.c1_ow = OuterWalls(thermal_zone)[1].calc.c1_korr
    /\ te.c1_ow # OuterWalls(thermal_zone)[1].c1
    /\ pc = "idle"

\* the instance after _calc_outer_elements has run on it under the policy m
LumpedUnder(m) ==
    calc_outer_elements(Begin([te EXCEPT !.merge_windows = m], thermal_zone)).obj

\* C10: for a zone without windows whose outer set is not empty,
\* _calc_outer_elements, run on what the constructor left, gives the same
\* r1_ow, r_total_ow and r_rest_ow under merge_windows True and False.
MergePolicySymmetry ==
    (/\ pc = "idle"
     /\ res["calc_outer_elements"] = "not called"
     /\ thermal_zone.windows = <<>>
     /\ OuterWalls(thermal_zone) # <<>>)
    => \A f \in {"r1_ow", "r_total_ow", "r_rest_ow"} :
           LumpedUnder("True")[f] = LumpedUnder("False")[f]

(***************************************************************************)
(* Properties of _calc_chain_matrix.                                       *)
(***************************************************************************)
\* C8: for a list of two elements and omega = 0, _calc_chain_matrix returns
\* c1 = c1_1 + c1_2 and r1 = (r1_1 * c1_1^2 + r1_2 * c1_2^2) / (c1_1 + c1_2)^2.
ZeroFrequencyClosedForm ==
    (chain.called /\ Len(chain.element_list) = 2 /\ chain.omega = Zero)
    => LET a == chain.element_list[1]
           b == chain.element_list[2]
       IN  /\ chain.exc = "none"
           /\ chain.ret[2] = Add(a.c1, b.c1)
           /\ chain.ret[1] = Div(Add(Mul(a.r1, Sq(a.c1)), Mul(b.r1, Sq(b.c1))),
                                 Sq(Add(a.c1, b.c1)))

\* two elements that differ in r1 and in c1 have been reduced at omega = 0
TwoReducedAtZeroFrequency ==
    /\ chain.called
    /\ Len(chain.element_list) = 2
    /\ chain.omega = Zero
    /\ chain.element_list[1].r1 # chain.element_list[2].r1
    /\ chain.element_list[1].c1 # chain.element_list[2].c1
    /\ chain.ret = <<Frac(1, 3), Q(3)>>

\* the element whose own pair is the returned pair c.ret
AsElement(c) == [r1 |-> c.ret[1], c1 |-> c.ret[2]]

\* C9: the pairwise combination is associative: reducing [A, B, C] left to
\* right returns the pair that reducing [B, C] first and combining A with the
\* result returns, for every omega.
ChainAssociative ==
    (chain.called /\ Len(chain.element_list) = 3)
    => LET A == chain.element_list[1]
           bc == calc_chain_matrix(SubSeq(chain.element_list, 2, 3), chain.omega)
       IN  /\ chain.exc = "none"
           /\ bc.exc = "none"
           /\ calc_chain_matrix(<<A, AsElement(bc)>>, chain.omega).ret = chain.ret

\* three elements, no two of them alike, have been reduced at an omega that
\* is not 0
ThreeReduced ==
    /\ chain.called
    /\ Len(chain.element_list) = 3
    /\ chain.omega # Zero
    /\ chain.exc = "none"
    /\ chain.element_list[1] # chain.element_list[2]
    /\ chain.element_list[2] # chain.element_list[3]
    /\ chain.element_list[1] # chain.element_list[3]
    /\ chain.element_list[1].r1 # chain.element_list[2].r1
    /\ chain.element_list[2].c1 # chain.element_list[3].c1

(***************************************************************************)
(* Properties of what the constructor leaves in the instance.              *)
(***************************************************************************)
\* a < b for two rationals
Less(a, b) == a[1] * b[2] < b[1] * a[2]

\* 1 / sum(1 / (win.r1 + win.r_outer_comb) for win in windows)
SeparateWindowResistance(windows) ==
    Recip(SumSeq(Map(windows, LAMBDA e : Recip(Add(e.r1, e.r_outer_comb)))))

\* C11: once __init__ has ended with merge_windows False on a zone with
\* exactly one outer element and at least one window, r1_ow is that element's
\* r1, r1_win is 1 / sum(1 / (r1 + r_outer_comb)) over the windows,
\* r_total_ow is 1 / ua_value_ow, and the wf_out of the outer element is 1.
SeparatePolicyScenario ==
    (/\ ctor # "running"
     /\ te.merge_windows = "False"
     /\ Len(OuterWalls(thermal_zone)) = 1
     /\ thermal_zone.windows # <<>>)
    => /\ te.r1_ow = OuterWalls(thermal_zone)[1].r1
       /\ te.r1_win = SeparateWindowResistance(thermal_zone.windows)
       /\ te.r_total_ow = Recip(te.ua_value_ow)
       /\ OuterWalls(thermal_zone)[1].wf_out = One

\* sum(6 / win.r1 for win in windows)
MergedWindowConductance(windows) ==
    SumSeq(Map(windows, LAMBDA e : Div(Q(6), e.r1)))

\* C12: once __init__ has ended with merge_windows True on a zone with outer
\* elements and windows, r1_ow is 1 / (1 / r1 + sum(6 / r1_i)) for the reduced
\* r1 of the outer elements and the r1_i of the windows, which is less than
\* that reduced r1, and every outer element and every window has the wf_out
\* ua_value / (ua_value_ow + ua_value_win).
MergedPolicyScenario ==
    (/\ ctor # "running"
     /\ te.merge_windows = "True"
     /\ OuterWalls(thermal_zone) # <<>>
     /\ thermal_zone.windows # <<>>)
    => /\ te.r1_ow = Recip(Add(Recip(Reduced.obj.r1_ow),
                               MergedWindowConductance(thermal_zone.windows)))
       /\ Less(te.r1_ow, Reduced.obj.r1_ow)
       /\ \A lst \in {OuterWalls(thermal_zone), thermal_zone.windows} :
              \A i \in 1..Len(lst) :
                  lst[i].wf_out =
                      Div(lst[i].ua_value, Add(te.ua_value_ow, te.ua_value_win))

\* lines 804-820 on the instance and zone as they are: the inner elements
\* recalculated and their pair reduced
ReducedInner == LumpInner(CalcInner(Begin(te, thermal_zone)))

\* C13: once __init__ has ended on a zone with an inner wall, floor or
\* ceiling, r1_iw and c1_iw hold the reduced pair of inner_walls + floors +
\* ceilings.
InnerPairStored ==
    (ctor # "running" /\ InnerWalls(thermal_zone) # <<>>)
    => /\ te.r1_iw = ReducedInner.obj.r1_1w
       /\ te.c1_iw = ReducedInner.obj.c1_1w

\* the elements of the outer set that face the ambient
Exposed(zone) == zone.outer_walls \o zone.rooftops

\* C14: the optical properties that _sum_outer_wall_elements leaves are the
\* area-weighted means over the whole group: the zone-facing emissivity over
\* all outer elements, the ambient-facing emissivity and absorptivity over
\* the outer walls and rooftops, each sum divided by area_ow.
OpticalAreaWeighted ==
    [][(SumOuterWallElements /\ res'["sum_outer_wall_elements"] = "returned")
       => /\ te'.ir_emissivity_inner_ow =
                 Div(InnerLayerSum(OuterWalls(thermal_zone), "ir_emissivity"),
                     te'.area_ow)
          /\ te'.ir_emissivity_outer_ow =
                 Div(OuterLayerSum(Exposed(thermal_zone), "ir_emissivity"),
                     te'.area_ow)
          /\ te'.solar_absorp_ow =
                 Div(OuterLayerSum(Exposed(thermal_zone), "solar_absorp"),
                     te'.area_ow)]_vars

\* C15: the weighted_g_value that _sum_window_elements leaves for a zone with
\* windows is sum(g_value * area) over the windows divided by area_win.
GValueAreaWeighted ==
    [][(SumWindowElements /\ thermal_zone.windows # <<>>)
       => te'.weighted_g_value =
              Div(SumSeq(Map(thermal_zone.windows,
                             LAMBDA e : Mul(e.g_value, e.area))),
                  te'.area_win)]_vars

\* the attributes _calc_outer_elements assigns
LumpedFields ==
    {"r1_ow", "c1_ow", "r1_win", "r_total_ow", "r_rad_ow_iw", "r_rest_ow",
     "ir_emissivity_inner_ow", "ir_emissivity_outer_ow", "solar_absorp_ow"}

WellFormed(zone) ==
    /\ zone.outer_walls # <<>>
    /\ zone.rooftops # <<>>
    /\ zone.windows # <<>>
    /\ InnerWalls(zone) # <<>>

\* C17: on a well-formed zone, with merge_windows True or False, __init__
\* runs its five passes to completion: none raises.
ConstructionCompletes ==
    [][(/\ ctor = "running"
        /\ ctor' # "running"
        /\ WellFormed(thermal_zone)
        /\ te.merge_windows \in Booleans)
       => /\ ctor' = "returned"
          /\ \A m \in Methods \ {"calc_inner_elements"} : res'[m] = "returned"]_vars

\* C18: when _calc_wf divides the ua_value of the outer elements by
\* ua_value_ow, and that of the windows by ua_value_win, the totals are the
\* sums of the ua_value that are the numerators: every element was
\* calculated before its ua_value was summed.
TotalsMatchNumerators ==
    [][(CalcWf /\ te.merge_windows \in Booleans
        /\ res["sum_window_elements"] # "not called")
       => /\ te.ua_value_ow = FieldSum(OuterWalls(thermal_zone), "ua_value")
          /\ te.ua_value_win = FieldSum(thermal_zone.windows, "ua_value")]_vars

(***************************************************************************)
(* Properties of the reduction as the assembler uses it.                   *)
(***************************************************************************)
\* the closed-form combination of the pairs x = (r1, c1) and y = (r2, c2):
\* r1' = [r1 c1^2 + r2 c2^2 + w^2 r1 r2 (r1 + r2) c1^2 c2^2]
\*       / [(c1 + c2)^2 + w^2 (r1 + r2)^2 c1^2 c2^2]
\* c1' = [(c1 + c2)^2 + w^2 (r1 + r2)^2 c1^2 c2^2]
\*       / [c1 + c2 + w^2 (r1^2 c1 + r2^2 c2) c1 c2]
Combine(x, y, omega) ==
    LET w2 == Sq(omega)
        cc == Mul(Sq(x[2]), Sq(y[2]))
        den == Add(Sq(Add(x[2], y[2])), Mul3(w2, Sq(Add(x[1], y[1])), cc))
    IN  <<Div(Add3(Mul(x[1], Sq(x[2])), Mul(y[1], Sq(y[2])),
                   Mul3(Mul3(w2, x[1], y[1]), Add(x[1], y[1]), cc)),
              den),
          Div(den,
              Add3(x[2], y[2],
                   Mul3(w2, Add(Mul(Sq(x[1]), x[2]), Mul(Sq(y[1]), y[2])),
                        Mul(x[2], y[2]))))>>

\* the left fold of Combine over the first n elements of lst, from the pair
\* of the first
RECURSIVE FoldCombine(_, _, _)
FoldCombine(lst, omega, n) ==
    IF n = 1 THEN <<lst[1].r1, lst[1].c1>>
    ELSE Once(LAMBDA x : Once(LAMBDA p : Combine(x, p, omega),
                              <<lst[n].r1, lst[n].c1>>),
              FoldCombine(lst, omega, n - 1))

\* C19: for an outer set of two or more elements, the pair that
\* _calc_outer_elements reduces it to is the left fold of the closed-form
\* combination over outer_walls, then ground_floors, then rooftops, from the
\* pair of the first element, at the omega of t_bt.  The call leaves this pair
\* in the instance; only line 751, under merge_windows True, then folds the
\* windows into r1_ow.
ReductionIsLeftFold ==
    [][(CalcOuterElements /\ Len(OuterWalls(thermal_zone)) >= 2)
       => LET lst == thermal_zone'.outer_walls \o thermal_zone'.ground_floors
                         \o thermal_zone'.rooftops
              p == FoldCombine(lst, Omega(te.t_bt), Len(lst))
          IN  /\ Reduced.exc = "none"
              /\ <<Reduced.obj.r1_ow, Reduced.obj.c1_ow>> = p
              /\ te'.c1_ow = p[2]
              /\ te.merge_windows # "True" => te'.r1_ow = p[1]]_vars

\* _calc_outer_elements has returned for an outer wall, a ground floor and a
\* rooftop with t_bt 5, and r1_ow and c1_ow are the pair of two combinations
ThreeOuterLumped ==
    /\ Returned("calc_outer_elements")
    /\ te.merge_windows = "False"
    /\ te.t_bt = 5
    /\ Len(thermal_zone.outer_walls) = 1
    /\ Len(thermal_zone.ground_floors) = 1
    /\ Len(thermal_zone.rooftops) = 1
    /\ <<te.r1_ow, te.c1_ow>> =
           Combine(Combine(<<thermal_zone.outer_walls[1].r1,
                             thermal_zone.outer_walls[1].c1>>,
                           <<thermal_zone.ground_floors[1].r1,
                             thermal_zone.ground_floors[1].c1>>,
                           Frac(1, 5)),
                   <<thermal_zone.rooftops[1].r1, thermal_zone.rooftops[1].c1>>,
                   Frac(1, 5))
    /\ te.c1_ow # Zero

\* C20: _calc_outer_elements and _calc_inner_elements never call
\* _calc_chain_matrix on a list of fewer than two elements (the call would
\* end in the UnboundLocalError of line 440); for an empty list they warn and
\* leave the lumped pair as it was.
ReducerGuarded ==
    [][/\ CalcOuterElements
          => /\ res'["calc_outer_elements"] # "UnboundLocalError"
             /\ OuterWalls(thermal_zone) = <<>>
                => /\ Reduced.warned
                   /\ te'.r1_ow = te.r1_ow
                   /\ te'.c1_ow = te.c1_ow
       /\ CalcInnerElements
          => /\ res'["calc_inner_elements"] # "UnboundLocalError"
             /\ InnerWalls(thermal_zone) = <<>>
                => /\ res'["calc_inner_elements"] = "returned with warning"
                   /\ te'.r1_1w = te.r1_1w
                   /\ te'.c1_1w = te.c1_1w]_vars

\* both lumping methods have been called on a zone without outer and without
\* inner elements, and have warned
WarnedForEmptyLists ==
    /\ OuterWalls(thermal_zone) = <<>>
    /\ InnerWalls(thermal_zone) = <<>>
    /\ res["calc_outer_elements"] = "returned with warning"
    /\ res["calc_inner_elements"] = "returned with warning"
    /\ te.r1_1w = Unset
    /\ te.c1_ow = Zero

(***************************************************************************)
(* Properties of the writes to the elements of the zone.                   *)
(***************************************************************************)
Categories ==
    {"outer_walls", "ground_floors", "rooftops", "windows",
     "inner_walls", "floors", "ceilings"}

\* the fields of an element that describe it, and those that its own
\* calc_equivalent_res() and calc_ua_value() store
DescriptionFields ==
    {"area", "r_inner_conv", "r_inner_rad", "r_inner_comb",
     "r_outer_conv", "r_outer_rad", "r_outer_comb", "layer", "g_value", "calc"}

CalculatedFields == {"r1", "c1", "c1_korr", "ua_value"}

\* C21: a call writes to an element nothing but wf_out, and that in _calc_wf
\* only: no call changes an element's area, resistances, layers or g_value;
\* r1, c1, c1_korr and ua_value change only to what the element's own
\* calc_equivalent_res() and calc_ua_value() store, in _calc_outer_elements
\* and _calc_inner_elements; and every list of the zone keeps its elements in
\* place.
ElementWritesLimited ==
    [][/\ \A c \in Categories :
              /\ Len(thermal_zone'[c]) = Len(thermal_zone[c])
              /\ \A i \in 1..Len(thermal_zone[c]) :
                     /\ \A f \in DescriptionFields :
                            thermal_zone'[c][i][f] = thermal_zone[c][i][f]
                     /\ \A f \in CalculatedFields :
                            \/ thermal_zone'[c][i][f] = thermal_zone[c][i][f]
                            \/ thermal_zone'[c][i][f] = thermal_zone[c][i].calc[f]
       /\ (\E c \in Categories : \E i \in 1..Len(thermal_zone[c]) :
               \E f \in CalculatedFields :
                   thermal_zone'[c][i][f] # thermal_zone[c][i][f])
          => CalcOuterElements \/ CalcInnerElements
       /\ (\E c \in Categories : \E i \in 1..Len(thermal_zone[c]) :
               thermal_zone'[c][i].wf_out # thermal_zone[c][i].wf_out)
          => CalcWf]_vars

\* _calc_outer_elements has recalculated a changed outer wall and _calc_wf has
\* given it and a window a weight factor
ElementsWritten ==
    /\ Returned("calc_outer_elements")
    /\ res["calc_wf"] = "returned"
    /\ thermal_zone.outer_walls # <<>>
    /\ thermal_zone.windows # <<>>
    /\ thermal_zone.outer_walls[1].wf_out # Zero
    /\ thermal_zone.windows[1].wf_out # Zero
    /\ thermal_zone.outer_walls[1].ua_value = thermal_zone.outer_walls[1].calc.ua_value
    /\ thermal_zone.outer_walls[1].ua_value # te.ua_value_ow
    /\ thermal_zone.outer_walls[1].area = One

=============================================================================
